---- MODULE Spec2Model ----
(***************************************************************************)
(* Model of promptbench/models/models.py: the model registry (MODEL_LIST), *)
(* the facade LLMModel with its name-keyed factory create_model, the five  *)
(* adapters (T5Model, UL2Model, LlamaModel, VicunaModel, OpenAIModel) and  *)
(* the dataset helper LMMBaseModel.predict_dataset.                        *)
(*                                                                         *)
(* Python values are represented as follows.  None is the string NoneV     *)
(* where the other values are strings, and the empty sequence <<>> where   *)
(* they are not (an attribute or keyword that is absent is <<>>, one that  *)
(* is present with value v is <<v>>).  Durations and the retry delay are   *)
(* counted in 1/JitterSteps of a second, so that random.random(), a float  *)
(* in [0, 1), is one of 0 .. JitterSteps-1.                                *)
(***************************************************************************)
EXTENDS Integers, Sequences, FiniteSets, TLC

VARIABLES
    facades,    \* the LLMModel objects the caller holds: [model, infer_model]
    adapters,   \* the heap of adapter objects, infer_model is an index in it
    api_key,    \* the module attribute openai.api_key
    ctor,       \* what the last LLMModel(**kwargs) did
    call,       \* what the last predict / __call__ did
    run,        \* what the last predict_dataset did
    listing     \* what the last model_list() returned

vars == <<facades, adapters, api_key, ctor, call, run, listing>>

-----------------------------------------------------------------------------
(* Bounds *)

MaxFacades == 2
MaxItems == 2
MaxAttempts == 2
JitterSteps == 2

-----------------------------------------------------------------------------
(* The registry, lines 5-35 *)

NoneV == "None"

LLAMA_MODELS == <<"llama2-7b", "llama2-7b-chat", "llama2-13b",
                  "llama2-13b-chat", "llama2-70b", "llama2-70b-chat">>

GPT_MODELS == <<"gpt-3.5-turbo", "gpt-4">>

VICUNA_MODELS == <<"vicuna-7b", "vicuna-13b", "vicuna-13b-v1.3">>

UL2_MODELS == <<"google/flan-ul2">>

MODEL_LIST ==
    [family \in {"t5", "llama", "gpt", "vicuna", "ul2"} |->
        CASE family = "t5" -> <<"google/flan-t5-large">>
          [] family = "llama" -> LLAMA_MODELS
          [] family = "gpt" -> GPT_MODELS
          [] family = "vicuna" -> VICUNA_MODELS
          [] family = "ul2" -> UL2_MODELS]

Range(s) == {s[i] : i \in 1..Len(s)}

\* x in list
In(x, list) == \E i \in 1..Len(list) : list[i] = x

-----------------------------------------------------------------------------
(* Keyword arguments *)

\* kwargs.get(key, default)
Get(kwargs, key, default) ==
    IF kwargs[key] = <<>> THEN default ELSE kwargs[key][1]

\* bool(x) of a string or None
Truthy(x) == x # NoneV /\ x # ""

\* The defaults of kwargs.get at lines 42, 191 and 192.  The delay default
\* of 3 seconds is 3 * JitterSteps in the unit of durations.
DefaultMaxNewTokens == 20
DefaultTemperature == 0
DefaultSleepSeconds == 3
DefaultSleepTime == DefaultSleepSeconds * JitterSteps

-----------------------------------------------------------------------------
(* Construction of the adapters.  A constructor is an operator from the     *)
(* keyword arguments (and from whether the transformers library manages to  *)
(* load the weights, which the code does not decide) to the exception it    *)
(* raises, "ok" if none, and to the attributes it had assigned by then.     *)

NotSupported == "ValueError: The model is not supported!"
ModelDirRequired == "ValueError: model_dir is required for llama model!"
KeyRequired == "ValueError: openai_key is required for openai model!"
TemperatureWarning == "Warning: Temperature is not 0, so that the results may not be reproducable!"
SleepWarning == "Warning: We suggest to set sleep time > 0 (i.e., 5)."
LoadError == "OSError: from_pretrained"

ConfigurationErrors == {NotSupported, ModelDirRequired, KeyRequired}

\* LMMBaseModel.__init__: the attributes every adapter starts with.
LMMBaseModel_init(cls, kwargs) ==
    [cls |-> cls,
     raw_dataset |-> <<>>,
     model |-> Get(kwargs, "model", NoneV),
     max_new_tokens |-> Get(kwargs, "max_new_tokens", DefaultMaxNewTokens),
     weights |-> <<>>,
     openai_key |-> <<>>,
     temperature |-> <<>>,
     sleep_time |-> <<>>]

\* tokenizer and pipe loaded by from_pretrained(path)
Loaded(self, path, loadOk) ==
    IF loadOk THEN [raised |-> "ok", self |-> [self EXCEPT !.weights = <<path>>]]
    ELSE [raised |-> LoadError, self |-> self]

T5Model_init(kwargs, loadOk) ==
    LET self == LMMBaseModel_init("T5Model", kwargs)
    IN  Loaded(self, self.model, loadOk)

UL2Model_init(kwargs, loadOk) ==
    LET self == LMMBaseModel_init("UL2Model", kwargs)
    IN  Loaded(self, self.model, loadOk)

LlamaModel_init_unchecked(kwargs, loadOk) ==
    LET self == LMMBaseModel_init("LlamaModel", kwargs)
    IN  Loaded(self, Get(kwargs, "model_dir", NoneV), loadOk)

LlamaModel_init(kwargs, loadOk) ==
    LET self == LMMBaseModel_init("LlamaModel", kwargs)
        model_dir == Get(kwargs, "model_dir", NoneV)
    IN  IF ~Truthy(model_dir) THEN [raised |-> ModelDirRequired, self |-> self]
        ELSE Loaded(self, model_dir, loadOk)

VicunaModel_init(kwargs, loadOk) ==
    LET self == LMMBaseModel_init("VicunaModel", kwargs)
        model_dir == Get(kwargs, "model_dir", NoneV)
    IN  IF ~Truthy(model_dir) THEN [raised |-> ModelDirRequired, self |-> self]
        ELSE Loaded(self, model_dir, loadOk)

OpenAIModel_init_no_defaults(kwargs) ==
    LET base == LMMBaseModel_init("OpenAIModel", kwargs)
        self == [base EXCEPT
                    !.openai_key = <<Get(kwargs, "openai_key", NoneV)>>,
                    !.temperature = <<Get(kwargs, "temperature", 0 - 1)>>,
                    !.sleep_time = <<Get(kwargs, "sleep_time", 0)>>]
    IN  IF ~Truthy(self.openai_key[1]) THEN [raised |-> KeyRequired, self |-> self]
        ELSE IF self.temperature[1] > 0 THEN [raised |-> TemperatureWarning, self |-> self]
        ELSE IF self.sleep_time[1] > 0 THEN [raised |-> SleepWarning, self |-> self]
        ELSE [raised |-> "ok", self |-> self]

OpenAIModel_init(kwargs) ==
    LET base == LMMBaseModel_init("OpenAIModel", kwargs)
        self == [base EXCEPT
                    !.openai_key = <<Get(kwargs, "openai_key", NoneV)>>,
                    !.temperature = <<Get(kwargs, "temperature", DefaultTemperature)>>,
                    !.sleep_time = <<Get(kwargs, "sleep_time", DefaultSleepTime)>>]
    IN  IF ~Truthy(self.openai_key[1]) THEN [raised |-> KeyRequired, self |-> self]
        ELSE IF self.temperature[1] > 0 THEN [raised |-> TemperatureWarning, self |-> self]
        ELSE IF self.sleep_time[1] > 0 THEN [raised |-> SleepWarning, self |-> self]
        ELSE [raised |-> "ok", self |-> self]

\* LLMModel.create_model: the class the identifier is dispatched to, "none"
\* for the else branch that raises.
create_model_list_order(model) ==
    IF model = "google/flan-t5-large" THEN "T5Model"
    ELSE IF In(model, LLAMA_MODELS) THEN "LlamaModel"
    ELSE IF In(model, VICUNA_MODELS) THEN "OpenAIModel"
    ELSE IF In(model, GPT_MODELS) THEN "VicunaModel"
    ELSE IF In(model, UL2_MODELS) THEN "UL2Model"
    ELSE "none"

create_model_default_llama(model) ==
    IF model = "google/flan-t5-large" THEN "T5Model"
    ELSE IF In(model, GPT_MODELS) THEN "OpenAIModel"
    ELSE IF In(model, VICUNA_MODELS) THEN "VicunaModel"
    ELSE IF In(model, UL2_MODELS) THEN "UL2Model"
    ELSE "LlamaModel"

create_model(model) ==
    IF model = "google/flan-t5-large" THEN "T5Model"
    ELSE IF In(model, LLAMA_MODELS) THEN "LlamaModel"
    ELSE IF In(model, GPT_MODELS) THEN "OpenAIModel"
    ELSE IF In(model, VICUNA_MODELS) THEN "VicunaModel"
    ELSE IF In(model, UL2_MODELS) THEN "UL2Model"
    ELSE "none"

\* The constructor create_model calls for the class.
Construct(cls, kwargs, loadOk) ==
    CASE cls = "T5Model" -> T5Model_init(kwargs, loadOk)
      [] cls = "LlamaModel" -> LlamaModel_init(kwargs, loadOk)
      [] cls = "OpenAIModel" -> OpenAIModel_init(kwargs)
      [] cls = "VicunaModel" -> VicunaModel_init(kwargs, loadOk)
      [] cls = "UL2Model" -> UL2Model_init(kwargs, loadOk)

-----------------------------------------------------------------------------
(* predict.  What the code does not decide is an input: `out` is the        *)
(* sequence of outcomes ("ok" or "raise") of the successive calls of the    *)
(* backend (generate of a local model, ChatCompletion.create of the remote  *)
(* service) and `jit` the sequence of values of random.random(); p and q    *)
(* are the positions reached in them.  Past their ends the backend answers  *)
(* and random.random() is 0.                                                *)

BackendError == "Exception: backend"
SleepError == "ValueError: sleep length must be non-negative"
UnexpectedKeyword == "TypeError: predict() got an unexpected keyword argument"

At(s, i, default) == IF i \in 1..Len(s) THEN s[i] ELSE default

\* The text a backend produces for a request; decoding is the library's.
Reply(by, input_text, max_new_tokens, temperature) ==
    [by |-> by, of |-> input_text,
     max_new_tokens |-> max_new_tokens, temperature |-> temperature]

\* predict of T5Model, UL2Model, LlamaModel and VicunaModel: tokenize,
\* generate with max_new_tokens, decode; an exception of the library is
\* not caught.
LocalModel_predict(self, input_text, out, jit, p, q) ==
    IF At(out, p, "ok") = "ok"
    THEN [requests |-> <<>>, sleeps |-> <<>>, raised |-> "none", api_key |-> <<>>,
          result |-> <<Reply(self.weights[1], input_text, <<self.max_new_tokens>>, <<>>)>>,
          p |-> p + 1, q |-> q]
    ELSE [requests |-> <<>>, sleeps |-> <<>>, raised |-> BackendError, api_key |-> <<>>,
          result |-> <<>>, p |-> p + 1, q |-> q]

OpenAIModel_sleep(seconds, jitter) ==
    IF seconds + jitter < 0 THEN [raised |-> SleepError, slept |-> <<>>]
    ELSE [raised |-> "none", slept |-> <<seconds + jitter>>]

\* The request ChatCompletion.create sends: the credential is the module
\* attribute openai.api_key at the time of the call.
Request(key, self, input_text) ==
    [api_key |-> key, model |-> self.model, content |-> input_text,
     temperature |-> self.temperature[1]]

\* The except clause of OpenAIModel.predict, lines 223-226, after the
\* requests made so far.
OpenAIModel_except(self, requests, key, jit, p, q) ==
    LET s == OpenAIModel_sleep(self.sleep_time[1], At(jit, q, 0))
    IN  [requests |-> requests, sleeps |-> s.slept, raised |-> s.raised,
         api_key |-> <<key>>, result |-> <<>>, p |-> p, q |-> q + 1]

\* A predict that retries until the service answers, sleeping in between.
RECURSIVE OpenAIModel_retry(_, _, _, _, _, _, _, _)
OpenAIModel_retry(self, input_text, key, requests, sleeps, out, jit, pq) ==
    LET sent == Append(requests, Request(key, self, input_text))
        s == OpenAIModel_sleep(self.sleep_time[1], At(jit, pq[2], 0))
    IN  IF At(out, pq[1], "ok") = "ok"
        THEN [requests |-> sent, sleeps |-> sleeps, raised |-> "none",
              api_key |-> <<key>>,
              result |-> <<Reply(self.model, input_text, <<>>, self.temperature)>>,
              p |-> pq[1] + 1, q |-> pq[2]]
        ELSE IF s.raised # "none"
        THEN [requests |-> sent, sleeps |-> sleeps, raised |-> s.raised,
              api_key |-> <<key>>, result |-> <<>>, p |-> pq[1] + 1, q |-> pq[2] + 1]
        ELSE OpenAIModel_retry(self, input_text, key, sent, sleeps \o s.slept,
                               out, jit, <<pq[1] + 1, pq[2] + 1>>)

OpenAIModel_predict_retrying(self, input_text, key_before, out, jit, p, q) ==
    OpenAIModel_retry(self, input_text, self.openai_key[1], <<>>, <<>>, out, jit, <<p, q>>)

\* A predict that relies on the credential set by an earlier call.
OpenAIModel_predict_key_once(self, input_text, key_before, out, jit, p, q) ==
    LET key == IF key_before = NoneV THEN self.openai_key[1] ELSE key_before
        sent == <<Request(key, self, input_text)>>
    IN  IF At(out, p, "ok") = "ok"
        THEN [requests |-> sent, sleeps |-> <<>>, raised |-> "none",
              api_key |-> <<key>>,
              result |-> <<Reply(self.model, input_text, <<>>, self.temperature)>>,
              p |-> p + 1, q |-> q]
        ELSE OpenAIModel_except(self, sent, key, jit, p + 1, q)

\* OpenAIModel.predict, lines 207-226: openai.api_key is assigned, then the
\* body of `while True` runs once: it returns the content of the first
\* choice, or the exception leaves the loop for the except clause, which
\* sleeps and falls off the end of the function.
OpenAIModel_predict(self, input_text, key_before, out, jit, p, q) ==
    LET key == self.openai_key[1]
        sent == <<Request(key, self, input_text)>>
    IN  IF At(out, p, "ok") = "ok"
        THEN [requests |-> sent, sleeps |-> <<>>, raised |-> "none",
              api_key |-> <<key>>,
              result |-> <<Reply(self.model, input_text, <<>>, self.temperature)>>,
              p |-> p + 1, q |-> q]
        ELSE OpenAIModel_except(self, sent, key, jit, p + 1, q)

\* self.predict(input_text) by the class of self.
predict(self, input_text, key_before, out, jit, p, q) ==
    IF self.cls = "OpenAIModel"
    THEN OpenAIModel_predict(self, input_text, key_before, out, jit, p, q)
    ELSE LocalModel_predict(self, input_text, out, jit, p, q)

\* LLMModel.__call__ and LMMBaseModel.__call__ pass **kwargs on to predict,
\* which accepts none.
Forward(self, input_text, extra, key_before, out, jit) ==
    IF extra
    THEN [requests |-> <<>>, sleeps |-> <<>>, raised |-> UnexpectedKeyword,
          api_key |-> <<>>, result |-> <<>>, p |-> 1, q |-> 1]
    ELSE predict(self, input_text, key_before, out, jit, 1, 1)

-----------------------------------------------------------------------------
(* The dataset helper, lines 51-66.  process_input, process_pred and eval   *)
(* come from the module utils.                                              *)

AssertionError == "AssertionError"

\* process_input(prompt, raw_dataset): one input text per item, in order.
process_input(prompt, raw_dataset) ==
    [i \in 1..Len(raw_dataset.items) |-> <<prompt, raw_dataset.items[i]>>]

\* process_pred(dataset_name, raw_preds)
process_pred(dataset_name, raw_preds) ==
    [dataset_name |-> dataset_name, raw_preds |-> raw_preds]

\* eval(raw_dataset, preds, labels)
eval(raw_dataset, preds, labels) ==
    Cardinality({i \in 1..Len(preds.raw_preds) : preds.raw_preds[i] # <<>>})

\* The for loop of lines 61-62 from item i on; st is what the calls of
\* predict have done so far.
RECURSIVE predict_loop_skipping(_, _, _, _, _, _)
predict_loop_skipping(self, input_texts, i, st, out, jit) ==
    IF i >= Len(input_texts) THEN st
    ELSE LET r == predict(self, input_texts[i], st.api_key, out, jit, st.p, st.q)
             next == [calls |-> Append(st.calls, input_texts[i]),
                      raw_preds |-> IF r.raised = "none"
                                    THEN Append(st.raw_preds, r.result)
                                    ELSE st.raw_preds,
                      requests |-> st.requests \o r.requests,
                      raised |-> r.raised,
                      api_key |-> IF r.api_key = <<>> THEN st.api_key ELSE r.api_key[1],
                      p |-> r.p, q |-> r.q]
         IN  IF r.raised # "none" THEN next
             ELSE predict_loop_skipping(self, input_texts, i + 1, next, out, jit)

RECURSIVE predict_loop(_, _, _, _, _, _)
predict_loop(self, input_texts, i, st, out, jit) ==
    IF i > Len(input_texts) THEN st
    ELSE LET r == predict(self, input_texts[i], st.api_key, out, jit, st.p, st.q)
             next == [calls |-> Append(st.calls, input_texts[i]),
                      raw_preds |-> IF r.raised = "none"
                                    THEN Append(st.raw_preds, r.result)
                                    ELSE st.raw_preds,
                      requests |-> st.requests \o r.requests,
                      raised |-> r.raised,
                      api_key |-> IF r.api_key = <<>> THEN st.api_key ELSE r.api_key[1],
                      p |-> r.p, q |-> r.q]
         IN  IF r.raised # "none" THEN next
             ELSE predict_loop(self, input_texts, i + 1, next, out, jit)

\* LMMBaseModel.predict_dataset: what it raises, the input texts predict
\* was called with, the requests sent, the value openai.api_key is left
\* with, what was handed to process_pred and the score returned.
predict_dataset(self, prompt, key_before, out, jit) ==
    IF self.raw_dataset = <<>>
    THEN [raised |-> AssertionError, calls |-> <<>>, requests |-> <<>>,
          api_key |-> key_before, handed |-> <<>>, score |-> <<>>]
    ELSE LET ds == self.raw_dataset[1]
             input_texts == process_input(prompt, ds)
             st == predict_loop(self, input_texts, 1,
                       [calls |-> <<>>, raw_preds |-> <<>>, requests |-> <<>>,
                        raised |-> "none", api_key |-> key_before, p |-> 1, q |-> 1],
                       out, jit)
             preds == process_pred(ds.dataset_name, st.raw_preds)
         IN  [raised |-> st.raised, calls |-> st.calls, requests |-> st.requests,
              api_key |-> st.api_key,
              handed |-> IF st.raised = "none" THEN <<preds>> ELSE <<>>,
              score |-> IF st.raised = "none" THEN <<eval(ds, preds, ds.items)>> ELSE <<>>]

-----------------------------------------------------------------------------
(* The inputs of the operations *)

Identifiers ==
    UNION {Range(MODEL_LIST[family]) : family \in DOMAIN MODEL_LIST}

Absent == <<>>

\* Every combination of the keywords the constructors read.
AllKwargs ==
    [model : {Absent, <<NoneV>>, <<"bloom">>} \cup {<<m>> : m \in Identifiers},
     model_dir : {Absent, <<"">>, <<"/llms/dir">>},
     openai_key : {Absent, <<"">>, <<"sk-1">>},
     max_new_tokens : {Absent, <<5>>},
     temperature : {Absent, <<0 - 1>>, <<0>>, <<1>>},
     sleep_time : {Absent, <<0 - JitterSteps>>, <<0 - 1>>, <<0>>, <<5 * JitterSteps>>}]

\* A caller that builds several facades: two remote ones with different
\* credentials and delays, a local one, and one of an unknown model.
FewKwargs ==
    {[model |-> <<"gpt-4">>, model_dir |-> Absent, openai_key |-> <<"sk-1">>,
      max_new_tokens |-> Absent, temperature |-> Absent, sleep_time |-> <<0>>],
     [model |-> <<"gpt-3.5-turbo">>, model_dir |-> Absent, openai_key |-> <<"sk-2">>,
      max_new_tokens |-> Absent, temperature |-> <<0>>, sleep_time |-> <<0 - 1>>],
     [model |-> <<"llama2-13b-chat">>, model_dir |-> <<"/llms/dir">>,
      openai_key |-> Absent, max_new_tokens |-> <<5>>, temperature |-> Absent,
      sleep_time |-> Absent],
     [model |-> <<"bloom">>, model_dir |-> <<"/llms/dir">>, openai_key |-> Absent,
      max_new_tokens |-> Absent, temperature |-> Absent, sleep_time |-> Absent]}

Texts == {<<"hello", 0>>}
Prompts == {"Classify: ", "Translate: "}

\* The datasets a caller attaches: N items, N in 0 .. MaxItems, numbered
\* upwards or downwards.
Datasets ==
    {[dataset_name |-> "sst2", items |-> [i \in 1..n |-> i]] : n \in 0..MaxItems}
    \cup {[dataset_name |-> "un_multi", items |-> [i \in 1..n |-> n + 1 - i]] :
                n \in 1..MaxItems}

\* What n calls of the backend of an adapter may do: their outcomes and,
\* for the remote adapter, which alone sleeps, the values of random.random().
Outcomes(n) == [1..n -> {"ok", "raise"}]
Jitters(n) == [1..n -> 0..(JitterSteps - 1)]
Envs(self, n) ==
    IF self.cls = "OpenAIModel"
    THEN {[out |-> o, jit |-> j] : o \in Outcomes(n), j \in Jitters(n)}
    ELSE {[out |-> o, jit |-> <<>>] : o \in Outcomes(n)}

\* The calls a single predict may make: one of a local backend, up to
\* MaxAttempts of the remote service with a sleep after each failure.
CallEnvs(self, extra) ==
    IF extra THEN {[out |-> <<>>, jit |-> <<>>]}
    ELSE IF self.cls = "OpenAIModel"
    THEN {[out |-> o, jit |-> j] : o \in Outcomes(MaxAttempts), j \in Jitters(1)}
    ELSE Envs(self, 1)

NoKwargs ==
    [model |-> Absent, model_dir |-> Absent, openai_key |-> Absent,
     max_new_tokens |-> Absent, temperature |-> Absent, sleep_time |-> Absent]

NoCtor == [kwargs |-> NoKwargs, cls |-> "none", raised |-> "idle",
           self |-> <<>>, facade |-> <<>>]
NoCall == [via |-> "idle", adapter |-> 0, input_text |-> <<>>, requests |-> <<>>,
           sleeps |-> <<>>, result |-> <<>>, raised |-> "none", key_before |-> NoneV,
           out |-> <<>>, jit |-> <<>>]
NoRun == [adapter |-> 0, prompt |-> "", raised |-> "idle", calls |-> <<>>,
          requests |-> <<>>, handed |-> <<>>, score |-> <<>>]

-----------------------------------------------------------------------------
(* The state machine *)

Init ==
    /\ facades = <<>>
    /\ adapters = <<>>
    /\ api_key = NoneV
    /\ ctor = NoCtor
    /\ call = NoCall
    /\ run = NoRun
    /\ listing = <<>>

\* LLMModel(**kwargs), lines 71-87: self.model is assigned, create_model
\* dispatches on it and calls the constructor of the adapter; an exception
\* leaves no facade behind.
LLMModel_init(kwargs, loadOk) ==
    LET model == Get(kwargs, "model", NoneV)
        cls == create_model(model)
    IN  /\ IF cls = "none"
           THEN /\ ctor' = [kwargs |-> kwargs, cls |-> cls, raised |-> NotSupported,
                            self |-> <<>>, facade |-> <<>>]
                /\ UNCHANGED <<facades, adapters>>
           ELSE LET made == Construct(cls, kwargs, loadOk)
                IN  IF made.raised # "ok"
                    THEN /\ ctor' = [kwargs |-> kwargs, cls |-> cls,
                                     raised |-> made.raised,
                                     self |-> <<made.self>>, facade |-> <<>>]
                         /\ UNCHANGED <<facades, adapters>>
                    ELSE /\ adapters' = Append(adapters, made.self)
                         /\ facades' = Append(facades,
                                [model |-> model, infer_model |-> Len(adapters) + 1])
                         /\ ctor' = [kwargs |-> kwargs, cls |-> cls, raised |-> "ok",
                                     self |-> <<made.self>>,
                                     facade |-> <<Len(facades) + 1>>]
        /\ call' = NoCall
        /\ run' = NoRun
        /\ listing' = <<>>
        /\ UNCHANGED api_key

\* LLMModel.model_list(), line 91: returns the table, touches nothing.
model_list ==
    /\ listing' = <<MODEL_LIST>>
    /\ UNCHANGED <<facades, adapters, api_key, ctor, call, run>>

\* What a predict leaves behind, whoever called it.
Called(via, a, input_text, env, r) ==
    /\ call' = [via |-> via, adapter |-> a, input_text |-> input_text,
                requests |-> r.requests, sleeps |-> r.sleeps, result |-> r.result,
                raised |-> r.raised, key_before |-> api_key,
                out |-> env.out, jit |-> env.jit]
    /\ api_key' = IF r.api_key = <<>> THEN api_key ELSE r.api_key[1]
    /\ ctor' = NoCtor
    /\ run' = NoRun
    /\ listing' = <<>>
    /\ UNCHANGED <<facades, adapters>>

\* A __call__ that builds the adapter again before it predicts.
LLMModel_call_recreating(f, input_text, extra, env) ==
    LET a == facades[f].infer_model
        r == Forward(adapters[a], input_text, extra, api_key, env.out, env.jit)
    IN  /\ Len(adapters) < 2 * MaxFacades
        /\ adapters' = Append(adapters, adapters[a])
        /\ facades' = [facades EXCEPT ![f].infer_model = Len(adapters) + 1]
        /\ call' = [via |-> "LLMModel.__call__", adapter |-> Len(adapters) + 1,
                    input_text |-> input_text, requests |-> r.requests,
                    sleeps |-> r.sleeps, result |-> r.result, raised |-> r.raised,
                    key_before |-> api_key, out |-> env.out, jit |-> env.jit]
        /\ api_key' = IF r.api_key = <<>> THEN api_key ELSE r.api_key[1]
        /\ ctor' = NoCtor
        /\ run' = NoRun
        /\ listing' = <<>>

\* LLMModel.__call__(input_text, **kwargs), line 94
LLMModel_call(f, input_text, extra, env) ==
    LET a == facades[f].infer_model
    IN  Called("LLMModel.__call__", a, input_text, env,
               Forward(adapters[a], input_text, extra, api_key, env.out, env.jit))

\* LMMBaseModel.__call__(input_text, **kwargs), line 49, on an adapter
LMMBaseModel_call(a, input_text, extra, env) ==
    Called("LMMBaseModel.__call__", a, input_text, env,
           Forward(adapters[a], input_text, extra, api_key, env.out, env.jit))

\* LMMBaseModel.set_raw_dataset(raw_dataset), line 52
set_raw_dataset(a, raw_dataset) ==
    /\ adapters' = [adapters EXCEPT ![a].raw_dataset = <<raw_dataset>>]
    /\ ctor' = NoCtor
    /\ call' = NoCall
    /\ run' = NoRun
    /\ listing' = <<>>
    /\ UNCHANGED <<facades, api_key>>

\* LMMBaseModel.predict_dataset(prompt), lines 54-66
LMMBaseModel_predict_dataset(a, prompt, env) ==
    LET r == predict_dataset(adapters[a], prompt, api_key, env.out, env.jit)
    IN  /\ run' = [adapter |-> a, prompt |-> prompt, raised |-> r.raised,
                   calls |-> r.calls, requests |-> r.requests,
                   handed |-> r.handed, score |-> r.score]
        /\ api_key' = r.api_key
        /\ ctor' = NoCtor
        /\ call' = NoCall
        /\ listing' = <<>>
        /\ UNCHANGED <<facades, adapters>>

\* The calls of the objects that exist.
Calls ==
    \/ \E f \in 1..Len(facades), t \in Texts, extra \in BOOLEAN :
          \E env \in CallEnvs(adapters[facades[f].infer_model], extra) :
             LLMModel_call(f, t, extra, env)
    \/ \E a \in 1..Len(adapters), t \in Texts, extra \in BOOLEAN :
          \E env \in CallEnvs(adapters[a], extra) :
             LMMBaseModel_call(a, t, extra, env)

\* A caller that holds up to MaxFacades facades and calls them in any order.
Next ==
    \/ /\ Len(facades) < MaxFacades
       /\ \E kwargs \in FewKwargs, loadOk \in BOOLEAN : LLMModel_init(kwargs, loadOk)
    \/ model_list
    \/ Calls

Spec == Init /\ [][Next]_vars

\* A caller that constructs one facade with any keywords, attaches datasets
\* to its adapter and calls it.  A construction that fails changes nothing
\* but the record of it, so that trying again from there reaches nothing
\* that trying from the state before does not.
NextConstruction ==
    \/ /\ facades = <<>>
       /\ ctor = NoCtor
       /\ \E kwargs \in AllKwargs, loadOk \in BOOLEAN : LLMModel_init(kwargs, loadOk)
    \/ model_list
    \/ \E a \in 1..Len(adapters), ds \in Datasets : set_raw_dataset(a, ds)
    \/ Calls

SpecConstruction == Init /\ [][NextConstruction]_vars

\* A caller that scores datasets with one adapter.
NextDataset ==
    \/ /\ facades = <<>>
       /\ \E kwargs \in FewKwargs, loadOk \in BOOLEAN : LLMModel_init(kwargs, loadOk)
    \/ \E a \in 1..Len(adapters), ds \in Datasets : set_raw_dataset(a, ds)
    \/ \E a \in 1..Len(adapters), prompt \in Prompts :
          \E env \in Envs(adapters[a], MaxItems) :
             LMMBaseModel_predict_dataset(a, prompt, env)

SpecDataset == Init /\ [][NextDataset]_vars

-----------------------------------------------------------------------------
(* The properties *)

\* The adapter class expected for a family of the table.
FamilyClass(family) ==
    CASE family = "t5" -> "T5Model"
      [] family = "llama" -> "LlamaModel"
      [] family = "gpt" -> "OpenAIModel"
      [] family = "vicuna" -> "VicunaModel"
      [] family = "ul2" -> "UL2Model"

Families == {"t5", "llama", "gpt", "vicuna", "ul2"}
LocalFamilies == {"t5", "llama", "vicuna", "ul2"}

\* The families whose list holds the identifier.
FamiliesOf(model) == {family \in Families : In(model, MODEL_LIST[family])}

Constructing == ctor.raised # "idle"
CtorModel == Get(ctor.kwargs, "model", NoneV)
CtorModelDir == Get(ctor.kwargs, "model_dir", NoneV)
CtorKey == Get(ctor.kwargs, "openai_key", NoneV)

\* The key the family requires is supplied and every other key is left out.
RequiredKeyOnly(family) ==
    /\ ctor.kwargs.max_new_tokens = Absent
    /\ ctor.kwargs.temperature = Absent
    /\ ctor.kwargs.sleep_time = Absent
    /\ IF family = "gpt"
       THEN Truthy(CtorKey) /\ ctor.kwargs.model_dir = Absent
       ELSE Truthy(CtorModelDir) /\ ctor.kwargs.openai_key = Absent

\* The facade exists and holds an adapter of the class.
Built(cls) ==
    /\ ctor.raised = "ok"
    /\ ctor.facade # <<>>
    /\ ctor.facade[1] \in 1..Len(facades)
    /\ facades[ctor.facade[1]].infer_model \in 1..Len(adapters)
    /\ adapters[facades[ctor.facade[1]].infer_model].cls = cls

\* C1: for every identifier of a family list, a construction with the
\* family's required key supplied and every other key left at its default
\* completes (the library loading the weights) and leaves infer_model
\* holding an adapter of the family's class.
C1_RequiredKeySuffices ==
    \A family \in Families :
        (/\ Constructing
         /\ In(CtorModel, MODEL_LIST[family])
         /\ RequiredKeyOnly(family)
         /\ ctor.raised # LoadError)
        => Built(FamilyClass(family))

\* C2: a construction with an identifier of no family list (None and a
\* missing identifier included) fails with the "not supported" ValueError,
\* calls no adapter constructor and leaves no facade and no adapter.
C2_UnsupportedModel ==
    (Constructing /\ CtorModel \notin Identifiers)
    => /\ ctor.raised = NotSupported
       /\ ctor.cls = "none"
       /\ ctor.self = <<>>
       /\ ctor.facade = <<>>
       /\ facades = <<>>
       /\ adapters = <<>>

C2_Witness ==
    /\ ctor.kwargs.model = Absent
    /\ ctor.kwargs.model_dir # Absent
    /\ ctor.raised = NotSupported

\* The key the family requires is withheld: absent or empty.
RequiredKeyWithheld(family) ==
    IF family = "gpt" THEN ~Truthy(CtorKey) ELSE ~Truthy(CtorModelDir)

\* C3 as stated: for every identifier of every family list, a construction
\* that withholds the family's required key (model_dir for the four local
\* families, openai_key for gpt) fails with a configuration error (a
\* failure of the library to load the weights is left aside: no
\* construction that withholds the key gets as far as loading them).
C3_Original ==
    \A family \in Families :
        (/\ Constructing
         /\ In(CtorModel, MODEL_LIST[family])
         /\ RequiredKeyWithheld(family)
         /\ ctor.raised # LoadError)
        => ctor.raised \in ConfigurationErrors

\* C3 as amended: LlamaModel and VicunaModel fail with the model_dir
\* ValueError when model_dir is absent or empty and OpenAIModel with the
\* openai_key ValueError when openai_key is absent or empty; T5Model and
\* UL2Model never read model_dir: whatever it is, they load the weights
\* named by the identifier and fail only if the library does.
C3_RequiredKeyWithheld ==
    /\ \A family \in {"llama", "vicuna"} :
          (Constructing /\ In(CtorModel, MODEL_LIST[family]) /\ ~Truthy(CtorModelDir))
          => ctor.raised = ModelDirRequired /\ ctor.facade = <<>> /\ facades = <<>>
    /\ (Constructing /\ In(CtorModel, MODEL_LIST["gpt"]) /\ ~Truthy(CtorKey))
          => ctor.raised = KeyRequired /\ ctor.facade = <<>> /\ facades = <<>>
    /\ \A family \in {"t5", "ul2"} :
          (Constructing /\ In(CtorModel, MODEL_LIST[family]))
          => /\ ctor.raised \in {"ok", LoadError}
             /\ ctor.raised = "ok" =>
                   /\ Built(FamilyClass(family))
                   /\ ctor.self[1].weights = <<CtorModel>>

C3_Witness ==
    /\ Constructing
    /\ In(CtorModel, LLAMA_MODELS)
    /\ ctor.kwargs.model_dir = <<"">>
    /\ ctor.raised = ModelDirRequired

\* C4: the warnings of the remote adapter are advisory: a construction of
\* an OpenAIModel with a credential never aborts, whatever the temperature
\* and the delay.
C4_WarningsAdvisory ==
    (Constructing /\ In(CtorModel, GPT_MODELS) /\ Truthy(CtorKey))
    => Built("OpenAIModel")

\* A predict of the remote adapter that reached the body of predict.
RemoteCall ==
    /\ call.via # "idle"
    /\ call.raised # UnexpectedKeyword
    /\ adapters[call.adapter].cls = "OpenAIModel"

ApiFailed == At(call.out, 1, "ok") = "raise"

\* predict returned the content of the first choice after one request and
\* no sleep.
Answered ==
    /\ Len(call.requests) = 1
    /\ call.sleeps = <<>>
    /\ call.raised = "none"
    /\ call.result # <<>>
    /\ call.result[1].by = adapters[call.adapter].model
    /\ call.result[1].of = call.input_text

\* C5 as stated: when the request raises, one predict makes exactly one
\* request, sleeps once for at least sleep_time and returns None without
\* raising; when it succeeds, predict returns the content after exactly one
\* request and never sleeps.
C5_Original ==
    RemoteCall =>
        IF ApiFailed
        THEN /\ Len(call.requests) = 1
             /\ Len(call.sleeps) = 1
             /\ call.sleeps[1] >= adapters[call.adapter].sleep_time[1]
             /\ call.result = <<>>
             /\ call.raised = "none"
        ELSE Answered

\* C5 as amended: when the request raises, one predict makes exactly one
\* request and calls sleep once with sleep_time plus the random offset; if
\* that length is not negative it sleeps for it, at least sleep_time, and
\* returns None without raising; if it is negative, which takes a negative
\* sleep_time, time.sleep raises ValueError, which predict propagates.  When
\* the request succeeds, predict returns the content after exactly one
\* request and never sleeps.
C5_OneAttemptThenSleep ==
    RemoteCall =>
        IF ApiFailed
        THEN LET length == adapters[call.adapter].sleep_time[1] + At(call.jit, 1, 0)
             IN  /\ Len(call.requests) = 1
                 /\ call.result = <<>>
                 /\ IF length >= 0
                    THEN /\ call.sleeps = <<length>>
                         /\ call.sleeps[1] >= adapters[call.adapter].sleep_time[1]
                         /\ call.raised = "none"
                    ELSE /\ call.sleeps = <<>>
                         /\ call.raised = SleepError
                         /\ adapters[call.adapter].sleep_time[1] < 0
        ELSE Answered

C5_Witness ==
    /\ RemoteCall
    /\ ApiFailed
    /\ call.raised = "none"
    /\ call.result = <<>>
    /\ Len(call.sleeps) = 1
    /\ call.sleeps[1] > adapters[call.adapter].sleep_time[1]

\* s is the first Len(s) elements of t
IsPrefix(s, t) == Len(s) <= Len(t) /\ \A i \in 1..Len(s) : s[i] = t[i]

C7_OneAdapterPerFacade ==
    /\ [](/\ Len(adapters) = Len(facades)
          /\ \A f \in 1..Len(facades) :
                /\ facades[f].infer_model = f
                /\ adapters[f].model = facades[f].model
                /\ \E family \in Families :
                      /\ In(facades[f].model, MODEL_LIST[family])
                      /\ adapters[f].cls = FamilyClass(family))
    /\ [][\A f \in 1..Len(facades) :
             /\ f <= Len(facades')
             /\ facades'[f] = facades[f]
             /\ adapters'[facades'[f].infer_model].cls
                   = adapters[facades[f].infer_model].cls]_vars

C7_Witness ==
    /\ Len(facades) = 2
    /\ call.via = "LLMModel.__call__"
    /\ call.adapter = 1
    /\ call.result # <<>>

\* C8: model_list() returns a mapping of exactly the five families to the
\* five predefined lists, no identifier is under two families, and the
\* class create_model dispatches an identifier to is the class of the
\* family that lists it.
C8_ListingAgreesWithDispatch ==
    listing # <<>> =>
        /\ DOMAIN listing[1] = Families
        /\ listing[1]["t5"] = <<"google/flan-t5-large">>
        /\ listing[1]["llama"] = LLAMA_MODELS
        /\ listing[1]["gpt"] = GPT_MODELS
        /\ listing[1]["vicuna"] = VICUNA_MODELS
        /\ listing[1]["ul2"] = UL2_MODELS
        /\ \A f1, f2 \in Families :
              f1 # f2 => Range(listing[1][f1]) \cap Range(listing[1][f2]) = {}
        /\ \A family \in Families :
              (Constructing /\ In(CtorModel, listing[1][family]))
              => ctor.cls = FamilyClass(family)

C8_Witness ==
    /\ listing # <<>>
    /\ Constructing
    /\ In(CtorModel, listing[1]["vicuna"])
    /\ ctor.raised = "ok"

C10_ConfigurationFixed ==
    /\ []((Constructing /\ ctor.self # <<>>) =>
            /\ ctor.self[1].model = CtorModel
            /\ ctor.kwargs.max_new_tokens = Absent => ctor.self[1].max_new_tokens = 20
            /\ ctor.kwargs.max_new_tokens # Absent
                  => ctor.self[1].max_new_tokens = ctor.kwargs.max_new_tokens[1]
            /\ ctor.cls = "OpenAIModel" =>
                  /\ ctor.self[1].openai_key = <<CtorKey>>
                  /\ ctor.kwargs.temperature = Absent => ctor.self[1].temperature = <<0>>
                  /\ ctor.kwargs.temperature # Absent
                        => ctor.self[1].temperature = ctor.kwargs.temperature
                  /\ ctor.kwargs.sleep_time = Absent
                        => ctor.self[1].sleep_time = <<3 * JitterSteps>>
                  /\ ctor.kwargs.sleep_time # Absent
                        => ctor.self[1].sleep_time = ctor.kwargs.sleep_time
            /\ ctor.raised = "ok" => adapters[facades[ctor.facade[1]].infer_model] = ctor.self[1])
    /\ [][call'.via # "idle" => adapters' = adapters]_vars

C10_Witness ==
    /\ RemoteCall
    /\ ApiFailed
    /\ call.raised = "none"
    /\ adapters[call.adapter].raw_dataset # <<>>
    /\ adapters[call.adapter].max_new_tokens = 20

====
